---- MODULE Spec2Model ----
(***************************************************************************)
(* State-machine model of DataWarehouse (src/app.py): ingestion of a       *)
(* folder into tables, documents and a Chroma vector index, and the query  *)
(* operations search and ask_unified.                                      *)
(***************************************************************************)
EXTENDS Integers, Sequences, FiniteSets, TLC

VARIABLES structured_data, documents, vectorstore, stats, chroma_db, last, ingests

vars == <<structured_data, documents, vectorstore, stats, chroma_db, last, ingests>>

\* ------------------------------------------------------------------ bounds
\* number of process_all_data calls explored on one warehouse
MaxIngests == 2

\* ------------------------------------------------------- program constants
chunk_size == 1000
chunk_overlap == 200
UnifiedK == 3
RetrieverK == 5
DefaultK == 5
MiB == 1048576

\* -------------------------------------------------------------------- texts
RECURSIVE SumSeq(_)
SumSeq(s) == IF s = <<>> THEN 0 ELSE Head(s) + SumSeq(Tail(s))

\* A text is a sequence of runs: a word of len characters none of which is a
\* separator, or one separator character ("sp" a space, "nl" a newline).
Run(c, len) == [c |-> c, len |-> len]
Word(n) == Run("w", n)
Space == Run("sp", 1)
Newline == Run("nl", 1)


\* len() of the runs lo..hi of a text, and the character positions of a run
PartLen(text, lo, hi) == SumSeq([i \in 1..(hi - lo + 1) |-> text[lo + i - 1].len])
TextLen(text) == PartLen(text, 1, Len(text))
FirstPos(text, i) == 1 + PartLen(text, 1, i - 1)
LastPos(text, i) == PartLen(text, 1, i)

\* --------------------------------------------------------------- the inputs
\* A column of a DataFrame: its label, whether its dtype is numeric
\* (np.number) and the number of its cells that are null
Column(name, numeric, missing) ==
    [name |-> name, numeric |-> numeric, missing |-> missing]

\* A file of a folder: dot = name starts with '.', ok = the file can be read
\* and parsed, text = the extracted text (len its number of characters),
\* rows / bytes / cols = size and columns of the DataFrame, strcols = every
\* column label of the DataFrame is a str.
File(name, dot, ext, ok, text, rows, bytes, cols, strcols) ==
    [name |-> name, dot |-> dot, ext |-> ext, ok |-> ok, text |-> text,
     len |-> TextLen(text), rows |-> rows, bytes |-> bytes, cols |-> cols,
     strcols |-> strcols]

\* 2500 characters in 14 lines: 13 lines of 179 characters and one of 160
LinedText ==
    [i \in 1..27 |-> IF i % 2 = 0 THEN Newline
                     ELSE IF i = 27 THEN Word(160) ELSE Word(179)]

\* a table of 3 columns with one missing cell, and others
Cols3 == <<Column("id", TRUE, 0), Column("region", FALSE, 0),
           Column("amount", TRUE, 1)>>
Cols2 == <<Column("id", TRUE, 0), Column("region", FALSE, 0)>>
ColsX == <<Column("0", TRUE, 0), Column("1", TRUE, 0)>>

HiddenFile == File(".DS_Store", TRUE, "", TRUE, <<>>, 0, 0, <<>>, TRUE)
ATxt       == File("a.txt", FALSE, "txt", TRUE, <<Word(300)>>, 0, 0, <<>>, TRUE)
BTxt       == File("b.txt", FALSE, "txt", TRUE, <<Word(2500)>>, 0, 0, <<>>, TRUE)
LTxt       == File("l.txt", FALSE, "txt", TRUE, LinedText, 0, 0, <<>>, TRUE)
BadPdf     == File("bad.pdf", FALSE, "pdf", FALSE, <<>>, 0, 0, <<>>, TRUE)
TCsv10     == File("t.csv", FALSE, "csv", TRUE, <<>>, 10, 15729, Cols3, TRUE)
TCsv5      == File("t.csv", FALSE, "csv", TRUE, <<>>, 5, 8000, Cols2, TRUE)
BadCsv     == File("bad.csv", FALSE, "csv", FALSE, <<>>, 0, 0, <<>>, TRUE)
BadTxt     == File("bad.txt", FALSE, "txt", FALSE, <<>>, 0, 0, <<>>, TRUE)
XXlsx      == File("x.xlsx", FALSE, "xlsx", TRUE, <<>>, 3, 4000, ColsX, FALSE)

\* folder name -> os.listdir of the folder; "missing" does not exist
ExistingFolders == {"empty", "docs", "mixed", "lined", "tabs", "xl"}
Folders == ExistingFolders \cup {"missing"}

listdir(folder) ==
    CASE folder = "empty" -> <<HiddenFile>>
      [] folder = "docs"  -> <<BadPdf, ATxt>>
      [] folder = "mixed" -> <<BTxt, TCsv10>>
      [] folder = "tabs"  -> <<BadCsv, TCsv5, BadTxt>>
      [] folder = "xl"    -> <<XXlsx>>
      [] folder = "lined" -> <<LTxt, TCsv10>>
      [] OTHER            -> <<>>

Queries == {1, 2}
Ks == {1, DefaultK}

NoneValue == "None"
NoDataMsg == [kind |-> "text", text |-> "No data available to answer this question."]

\* ------------------------------------------------------------------ helpers
Max(S) == CHOOSE x \in S : \A y \in S : y <= x

\* self.stats as reset at the start of process_all_data / set by __init__
ZeroStats == [total_rows |-> 0, total_documents |-> 0, total_chunks |-> 0,
              data_size_mb |-> 0]

\* dict assignment self.structured_data[file] = df (insertion order kept)
SetItem(sd, name, df) ==
    IF \E i \in 1..Len(sd) : sd[i].name = name
    THEN [i \in 1..Len(sd) |-> IF sd[i].name = name
                               THEN [name |-> name, df |-> df] ELSE sd[i]]
    ELSE Append(sd, [name |-> name, df |-> df])

DataFrame(f) ==
    [rows |-> f.rows, bytes |-> f.bytes, columns |-> f.cols,
     strcols |-> f.strcols]

\* variant: the try is around the loop, the first unreadable file ends it
RECURSIVE LoadTablesAbort(_, _, _, _)
LoadTablesAbort(fs, sd, rows, warns) ==
    IF fs = <<>> THEN [sd |-> sd, rows |-> rows, warns |-> warns]
    ELSE LET f == Head(fs) IN
         IF f.dot \/ f.ext \notin {"csv", "xlsx", "xls"}
         THEN LoadTablesAbort(Tail(fs), sd, rows, warns)
         ELSE IF f.ok
         THEN LoadTablesAbort(Tail(fs), SetItem(sd, f.name, DataFrame(f)),
                              rows + f.rows, warns)
         ELSE [sd |-> sd, rows |-> rows, warns |-> warns + 1]

\* _process_structured_data, the loop over os.listdir: the pair
\* <<structured_data, total_rows, warnings>> after the files fs
RECURSIVE LoadTables(_, _, _, _)
LoadTables(fs, sd, rows, warns) ==
    IF fs = <<>> THEN [sd |-> sd, rows |-> rows, warns |-> warns]
    ELSE LET f == Head(fs) IN
         IF f.dot \/ f.ext \notin {"csv", "xlsx", "xls"}
         THEN LoadTables(Tail(fs), sd, rows, warns)
         ELSE IF f.ok
         THEN LoadTables(Tail(fs), SetItem(sd, f.name, DataFrame(f)),
                         rows + f.rows, warns)
         ELSE LoadTables(Tail(fs), sd, rows, warns + 1)

\* _process_structured_data: tables, total_rows and data_size_mb (kept in
\* bytes: the code's value times 1024**2) after loading the folder
ProcessStructuredData(sd, st, folder) ==
    LET r == LoadTables(listdir(folder), sd, st.total_rows, 0)
        size == SumSeq([i \in 1..Len(r.sd) |-> r.sd[i].df.bytes])
    IN [sd |-> r.sd,
        stats |-> [st EXCEPT !.total_rows = r.rows,
                             !.data_size_mb = st.data_size_mb + size],
        warns |-> r.warns]

\* _parse_pdf / _parse_docx / open().read(): the length of the text of a
\* file; the two parsers swallow their errors and return "", reading a .txt
\* raises (-1)
ParsedLen(f) ==
    IF f.ok THEN f.len
    ELSE IF f.ext \in {"pdf", "docx"} THEN 0 ELSE -1

\* _process_documents, the loop over os.listdir; assigned counts the
\* executions of doc['chunks'] = chunks on the record (not a key of the dict)
RECURSIVE ParseDocuments(_, _, _, _)
ParseDocuments(fs, docs, n, warns) ==
    IF fs = <<>> THEN [docs |-> docs, n |-> n, warns |-> warns]
    ELSE LET f == Head(fs) IN
         IF f.dot \/ f.ext \notin {"pdf", "docx", "txt"}
         THEN ParseDocuments(Tail(fs), docs, n, warns)
         ELSE IF ParsedLen(f) < 0
         THEN ParseDocuments(Tail(fs), docs, n, warns + 1)
         ELSE IF ParsedLen(f) = 0
         THEN ParseDocuments(Tail(fs), docs, n, warns)
         ELSE ParseDocuments(Tail(fs),
                  Append(docs, [filename |-> f.name, type |-> f.ext,
                                content |-> f.text, chunks |-> <<>>,
                                assigned |-> 0]),
                  n + 1, warns)

\* st.error reports of _parse_pdf / _parse_docx over the files fs
RECURSIVE ParseErrors(_)
ParseErrors(fs) ==
    IF fs = <<>> THEN 0
    ELSE (IF ~Head(fs).dot /\ Head(fs).ext \in {"pdf", "docx"} /\ ~Head(fs).ok
          THEN 1 ELSE 0) + ParseErrors(Tail(fs))

ProcessDocuments(docs, st, folder) ==
    LET r == ParseDocuments(listdir(folder), docs, st.total_documents, 0)
    IN [docs |-> r.docs,
        stats |-> [st EXCEPT !.total_documents = r.n],
        warns |-> r.warns,
        errors |-> ParseErrors(listdir(folder))]

\* ------------------------------------------------------------ the chunker
\* RecursiveCharacterTextSplitter as __init__ configures it: chunk_size and
\* chunk_overlap above, length_function=len, the separators below, and the
\* defaults keep_separator=True and strip_whitespace=True.  A chunk is the
\* span first..last of the characters of the text it holds.
\* separators=["\n\n", "\n", " ", ""]
separators == <<"nlnl", "nl", "sp", "">>

\* variant: the overlap is added to the step instead of taken from it
RECURSIVE SplitFromSkipping(_, _)
SplitFromSkipping(lo, n) ==
    IF n - lo <= chunk_size THEN <<[first |-> lo + 1, last |-> n]>>
    ELSE <<[first |-> lo + 1, last |-> lo + chunk_size]>>
         \o SplitFromSkipping(lo + chunk_size + chunk_overlap, n)

\* _merge_splits over single characters (the last separator ""): windows of
\* chunk_size characters, each starting chunk_size - chunk_overlap after the
\* previous one, over the characters lo+1..n
RECURSIVE SplitFrom(_, _)
SplitFrom(lo, n) ==
    IF n - lo <= chunk_size THEN <<[first |-> lo + 1, last |-> n]>>
    ELSE <<[first |-> lo + 1, last |-> lo + chunk_size]>>
         \o SplitFrom(lo + chunk_size - chunk_overlap, n)

CharAt(text, p) ==
    text[CHOOSE i \in 1..Len(text) : FirstPos(text, i) <= p /\ p <= LastPos(text, i)].c

\* str.strip() of the characters a..b of the text, and the None that
\* _join_docs returns when nothing is left (<<>>)
RECURSIVE StripSpan(_, _, _)
StripSpan(text, a, b) ==
    IF a > b THEN <<>>
    ELSE IF CharAt(text, a) # "w" THEN StripSpan(text, a + 1, b)
    ELSE IF CharAt(text, b) # "w" THEN StripSpan(text, a, b - 1)
    ELSE <<[first |-> a, last |-> b]>>

\* _join_docs(docs, "") of the adjacent parts cs..ce of splits
_join_docs(text, splits, cs, ce) ==
    IF cs > ce THEN <<>>
    ELSE StripSpan(text, FirstPos(text, splits[cs].lo), LastPos(text, splits[ce].hi))

\* re.split with the separator kept: the runs at which a match of sep starts
\* (leftmost, not overlapping)
RECURSIVE MatchPairs(_, _, _)
MatchPairs(text, i, hi) ==
    IF i >= hi THEN {}
    ELSE IF text[i].c = "nl" /\ text[i + 1].c = "nl"
    THEN {i} \cup MatchPairs(text, i + 2, hi)
    ELSE MatchPairs(text, i + 1, hi)

Matches(text, lo, hi, sep) ==
    IF sep = "nlnl" THEN MatchPairs(text, lo, hi)
    ELSE {i \in lo..hi : text[i].c = sep}

\* _split_text_with_regex(text, separator, keep_separator=True): the first
\* piece up to the first match, then one piece per match that starts with the
\* separator; empty pieces are dropped.  A piece is the runs lo..hi.
RECURSIVE PiecesFrom(_, _, _)
PiecesFrom(starts, i, hi) ==
    LET later == {j \in starts : j > i}
        end == IF later = {} THEN hi
               ELSE (CHOOSE j \in later : \A k \in later : j <= k) - 1
    IN <<[lo |-> i, hi |-> end]>>
       \o (IF end = hi THEN <<>> ELSE PiecesFrom(starts, end + 1, hi))

_split_text_with_regex(text, lo, hi, sep) ==
    PiecesFrom({lo} \cup Matches(text, lo, hi, sep), lo, hi)

\* _merge_splits, the inner while: drop pieces from the front of current_doc
\* (splits[cs..]) until at most chunk_overlap characters are left and the
\* next piece fits; the pair <<cs, total>> after it
RECURSIVE PopFront(_, _, _, _, _)
PopFront(text, splits, cs, total, len) ==
    IF total > chunk_overlap \/ (total + len > chunk_size /\ total > 0)
    THEN PopFront(text, splits, cs + 1,
                  total - PartLen(text, splits[cs].lo, splits[cs].hi), len)
    ELSE <<cs, total>>

\* _merge_splits(splits, ""), the for loop from the j-th piece on:
\* current_doc is splits[cs..j-1] and holds total characters
RECURSIVE MergeFrom(_, _, _, _, _, _)
MergeFrom(text, splits, j, cs, total, docs) ==
    IF j > Len(splits) THEN docs \o _join_docs(text, splits, cs, Len(splits))
    ELSE LET len == PartLen(text, splits[j].lo, splits[j].hi)
         IN IF total + len > chunk_size /\ cs <= j - 1
            THEN LET p == PopFront(text, splits, cs, total, len)
                 IN MergeFrom(text, splits, j + 1, p[1], p[2] + len,
                              docs \o _join_docs(text, splits, cs, j - 1))
            ELSE MergeFrom(text, splits, j + 1, cs, total + len, docs)

\* variant: what is left in current_doc after the loop is not emitted
RECURSIVE MergeFromNoTail(_, _, _, _, _, _)
MergeFromNoTail(text, splits, j, cs, total, docs) ==
    IF j > Len(splits) THEN docs
    ELSE LET len == PartLen(text, splits[j].lo, splits[j].hi)
         IN IF total + len > chunk_size /\ cs <= j - 1
            THEN LET p == PopFront(text, splits, cs, total, len)
                 IN MergeFromNoTail(text, splits, j + 1, p[1], p[2] + len,
                                    docs \o _join_docs(text, splits, cs, j - 1))
            ELSE MergeFromNoTail(text, splits, j + 1, cs, total + len, docs)

merge_splits_no_tail(text, splits) ==
    MergeFromNoTail(text, splits, 1, 1, 0, <<>>)

_merge_splits(text, splits) == MergeFrom(text, splits, 1, 1, 0, <<>>)

\* the last separator "": list(text) merged by _merge_splits, that is the
\* windows of SplitFrom over the characters of the runs lo..hi, each stripped
RECURSIVE StripAll(_, _)
StripAll(text, spans) ==
    IF spans = <<>> THEN <<>>
    ELSE StripSpan(text, Head(spans).first, Head(spans).last)
         \o StripAll(text, Tail(spans))

SplitCharacters(text, lo, hi) ==
    StripAll(text, SplitFrom(FirstPos(text, lo) - 1, LastPos(text, hi)))

\* RecursiveCharacterTextSplitter._split_text(text, separators) on the runs
\* lo..hi, and its loop over the pieces (SplitPieces): pieces shorter than
\* chunk_size are collected and merged, a longer one is split again with the
\* separators that are left
RECURSIVE _split_text(_, _, _, _), SplitPieces(_, _, _, _, _)
_split_text(text, lo, hi, seps) ==
    LET k == CHOOSE i \in 1..Len(seps) :
                 /\ seps[i] = "" \/ Matches(text, lo, hi, seps[i]) # {}
                 /\ \A j \in 1..(i - 1) :
                        seps[j] # "" /\ Matches(text, lo, hi, seps[j]) = {}
    IN IF seps[k] = "" THEN SplitCharacters(text, lo, hi)
       ELSE SplitPieces(text, _split_text_with_regex(text, lo, hi, seps[k]),
                        1, <<>>, SubSeq(seps, k + 1, Len(seps)))

SplitPieces(text, splits, i, good, rest) ==
    LET merged == IF good = <<>> THEN <<>> ELSE _merge_splits(text, good)
    IN IF i > Len(splits) THEN merged
       ELSE IF PartLen(text, splits[i].lo, splits[i].hi) < chunk_size
       THEN SplitPieces(text, splits, i + 1, Append(good, splits[i]), rest)
       ELSE merged
            \o (IF rest = <<>>
                THEN <<[first |-> FirstPos(text, splits[i].lo),
                        last |-> LastPos(text, splits[i].hi)]>>
                ELSE _split_text(text, splits[i].lo, splits[i].hi, rest))
            \o SplitPieces(text, splits, i + 1, <<>>, rest)

\* text_splitter.split_text(text) of a text given by its runs
split_text(text) ==
    IF text = <<>> THEN <<>> ELSE _split_text(text, 1, Len(text), separators)

\* split_text of the text of every file: doc['content'] is always the text of
\* a file of a folder, so an index build finds the chunks of a document here
FileTexts ==
    UNION {{listdir(f)[i].text : i \in 1..Len(listdir(f))} : f \in ExistingFolders}

SplitTexts == [text \in FileTexts |-> split_text(text)]

\* ---------------------------------------------------------- the describer
\* _create_dataset_description: raises TypeError when a column label is not
\* a str (', '.join(df.columns.tolist())); otherwise the description text
DescriptionRaises(df) == ~df.strcols

\* numeric_cols[:10]
StatColumns == 10

IsNumeric(col) == col.numeric
HasMissing(col) == col.missing > 0

\* df.select_dtypes(include=[np.number]).columns
select_dtypes(df) == SelectSeq(df.columns, IsNumeric)

\* s[:n]
Prefix(s, n) == SubSeq(s, 1, IF n < Len(s) THEN n ELSE Len(s))

\* the label of every column of cols
Labels(cols) == [i \in 1..Len(cols) |-> cols[i].name]

\* missing[missing > 0].items()
MissingItems(df) ==
    LET cols == SelectSeq(df.columns, HasMissing)
    IN [i \in 1..Len(cols) |-> [col |-> cols[i].name, count |-> cols[i].missing]]

\* variant: a statistics line for every numeric column
create_dataset_description_all_numeric(filename, df) ==
    [dataset |-> filename, rows |-> df.rows, ncols |-> Len(df.columns),
     stats_header |-> select_dtypes(df) # <<>>,
     stats |-> Labels(select_dtypes(df)),
     missing_header |->
         SumSeq([i \in 1..Len(df.columns) |-> df.columns[i].missing]) > 0,
     missing |-> MissingItems(df)]

\* The parts of the description: the dataset line, the shape line, the
\* "Summary Statistics:" header and the columns of its lines, the
\* "Missing Values:" header and the (column, count) of its lines.
_create_dataset_description(filename, df) ==
    [dataset |-> filename, rows |-> df.rows, ncols |-> Len(df.columns),
     stats_header |-> select_dtypes(df) # <<>>,
     stats |-> Labels(Prefix(select_dtypes(df), StatColumns)),
     missing_header |->
         SumSeq([i \in 1..Len(df.columns) |-> df.columns[i].missing]) > 0,
     missing |-> MissingItems(df)]

\* variant: the ordinal counts from 1
DocEntriesOneBased(doc, chunks) ==
    [i \in 1..Len(chunks) |->
        [text |-> chunks[i], source |-> doc.filename, type |-> "document",
         chunk |-> i, total_chunks |-> Len(chunks)]]

\* the IndexEntry list (all_texts zipped with all_metadatas) of one document
DocEntries(doc, chunks) ==
    [i \in 1..Len(chunks) |->
        [text |-> chunks[i], source |-> doc.filename, type |-> "document",
         chunk |-> i - 1, total_chunks |-> Len(chunks)]]

RECURSIVE AllDocEntries(_)
AllDocEntries(docs) ==
    IF docs = <<>> THEN <<>>
    ELSE DocEntries(Head(docs), SplitTexts[Head(docs).content])
         \o AllDocEntries(Tail(docs))

TableEntries(sd) ==
    [i \in 1..Len(sd) |->
        [text |-> _create_dataset_description(sd[i].name, sd[i].df),
         source |-> sd[i].name, type |-> "structured_data",
         chunk |-> 0, total_chunks |-> 1]]

\* Chroma.from_texts(..., persist_directory="./chroma_db"): the collection
\* the new handle reads.  The library either reopens the persisted
\* collection and adds to it (reopen) or starts from an empty in-memory
\* collection; both are outcomes of the call the code makes.
from_texts(db, all_texts, reopen) ==
    IF reopen THEN db \o all_texts ELSE all_texts

\* variant: the build runs although all_texts is empty
create_vector_index_unguarded(docs, sd, st, vs, db, embedOk, reopen) ==
    LET docs2 == [i \in 1..Len(docs) |->
                    [docs[i] EXCEPT !.chunks = SplitTexts[docs[i].content],
                                    !.assigned = @ + 1]]
        all_texts == AllDocEntries(docs) \o TableEntries(sd)
    IN IF \E i \in 1..Len(sd) : DescriptionRaises(sd[i].df)
       THEN [docs |-> docs2, stats |-> st, vectorstore |-> vs, chroma_db |-> db,
             build |-> "raised", errors |-> 0, net |-> {}]
       ELSE IF embedOk
       THEN [docs |-> docs2,
             stats |-> [st EXCEPT !.total_chunks = Len(all_texts)],
             vectorstore |-> "Chroma",
             chroma_db |-> from_texts(db, all_texts, reopen),
             build |-> "ok", errors |-> 0, net |-> {"embed_documents"}]
       ELSE [docs |-> docs2, stats |-> st, vectorstore |-> vs, chroma_db |-> db,
             build |-> "failed", errors |-> 1, net |-> {"embed_documents"}]

\* variant: the handle is assigned and the texts embedded so far are written
\* before the embedding service fails
create_vector_index_partial(docs, sd, st, vs, db, embedOk, reopen) ==
    LET docs2 == [i \in 1..Len(docs) |->
                    [docs[i] EXCEPT !.chunks = SplitTexts[docs[i].content],
                                    !.assigned = @ + 1]]
        all_texts == AllDocEntries(docs) \o TableEntries(sd)
    IN IF \E i \in 1..Len(sd) : DescriptionRaises(sd[i].df)
       THEN [docs |-> docs2, stats |-> st, vectorstore |-> vs, chroma_db |-> db,
             build |-> "raised", errors |-> 0, net |-> {}]
       ELSE IF all_texts = <<>>
       THEN [docs |-> docs2, stats |-> st, vectorstore |-> vs, chroma_db |-> db,
             build |-> "skipped", errors |-> 0, net |-> {}]
       ELSE IF embedOk
       THEN [docs |-> docs2,
             stats |-> [st EXCEPT !.total_chunks = Len(all_texts)],
             vectorstore |-> "Chroma",
             chroma_db |-> from_texts(db, all_texts, reopen),
             build |-> "ok", errors |-> 0, net |-> {"embed_documents"}]
       ELSE [docs |-> docs2, stats |-> st, vectorstore |-> "Chroma",
             chroma_db |-> from_texts(db, <<Head(all_texts)>>, reopen),
             build |-> "failed", errors |-> 1, net |-> {"embed_documents"}]

\* variant: total_chunks counts the chunks of the documents only
create_vector_index_doc_chunks(docs, sd, st, vs, db, embedOk, reopen) ==
    LET docs2 == [i \in 1..Len(docs) |->
                    [docs[i] EXCEPT !.chunks = SplitTexts[docs[i].content],
                                    !.assigned = @ + 1]]
        all_texts == AllDocEntries(docs) \o TableEntries(sd)
    IN IF \E i \in 1..Len(sd) : DescriptionRaises(sd[i].df)
       THEN [docs |-> docs2, stats |-> st, vectorstore |-> vs, chroma_db |-> db,
             build |-> "raised", errors |-> 0, net |-> {}]
       ELSE IF all_texts = <<>>
       THEN [docs |-> docs2, stats |-> st, vectorstore |-> vs, chroma_db |-> db,
             build |-> "skipped", errors |-> 0, net |-> {}]
       ELSE IF embedOk
       THEN [docs |-> docs2,
             stats |-> [st EXCEPT !.total_chunks = Len(AllDocEntries(docs))],
             vectorstore |-> "Chroma",
             chroma_db |-> from_texts(db, all_texts, reopen),
             build |-> "ok", errors |-> 0, net |-> {"embed_documents"}]
       ELSE [docs |-> docs2, stats |-> st, vectorstore |-> vs, chroma_db |-> db,
             build |-> "failed", errors |-> 1, net |-> {"embed_documents"}]

\* _create_vector_index.  embedOk: the embedding service answers; reopen: see
\* from_texts.  build is "raised" when a dataset description raises out of
\* the method, "skipped" when all_texts is empty, else "ok" or "failed".
_create_vector_index(docs, sd, st, vs, db, embedOk, reopen) ==
    LET docs2 == [i \in 1..Len(docs) |->
                    [docs[i] EXCEPT !.chunks = SplitTexts[docs[i].content],
                                    !.assigned = @ + 1]]
        all_texts == AllDocEntries(docs) \o TableEntries(sd)
    IN IF \E i \in 1..Len(sd) : DescriptionRaises(sd[i].df)
       THEN [docs |-> docs2, stats |-> st, vectorstore |-> vs, chroma_db |-> db,
             build |-> "raised", errors |-> 0, net |-> {}]
       ELSE IF all_texts = <<>>
       THEN [docs |-> docs2, stats |-> st, vectorstore |-> vs, chroma_db |-> db,
             build |-> "skipped", errors |-> 0, net |-> {}]
       ELSE IF embedOk
       THEN [docs |-> docs2,
             stats |-> [st EXCEPT !.total_chunks = Len(all_texts)],
             vectorstore |-> "Chroma",
             chroma_db |-> from_texts(db, all_texts, reopen),
             build |-> "ok", errors |-> 0, net |-> {"embed_documents"}]
       ELSE [docs |-> docs2, stats |-> st, vectorstore |-> vs, chroma_db |-> db,
             build |-> "failed", errors |-> 1, net |-> {"embed_documents"}]

\* round(x, 2) of a size held in bytes, in hundredths of a MB
Round2(bytes) == (bytes * 200 + MiB) \div (2 * MiB)

get_summary(sd, st, vs) ==
    [structured_files |-> Len(sd),
     total_rows |-> st.total_rows,
     documents |-> st.total_documents,
     chunks_indexed |-> st.total_chunks,
     data_size_mb |-> Round2(st.data_size_mb),
     ready |-> vs # NoneValue]

\* the entries a search through self.vectorstore reads
IndexEntries == IF vectorstore = NoneValue THEN <<>> ELSE chroma_db

\* what the last call did: its outcome ("return" or "raise"), the value
\* returned or the exception raised, the remote calls it made (net) and
\* those of them that failed, the number of st.error reports, and the
\* context_parts of ask_unified; args are the arguments of the call
Result(op, outcome, value, net, failed, errors, ctx) ==
    [op |-> op, outcome |-> outcome, value |-> value, net |-> net,
     failed |-> failed, errors |-> errors, ctx |-> ctx, args |-> <<>>]

WithArgs(r, args) == [r EXCEPT !.args = args]

\* ------------------------------------------------------------------- state
Init ==
    /\ structured_data = <<>>
    /\ documents = <<>>
    /\ vectorstore = NoneValue
    /\ stats = ZeroStats
    /\ chroma_db = <<>>
    /\ last = Result("init", "return", NoneValue, {}, {}, 0, <<>>)
    /\ ingests = <<>>

\* variant: the stats are reset before the folder is looked for
process_all_data_reset_first(folder, embedOk, reopen) ==
    /\ Len(ingests) < MaxIngests
    /\ IF folder \notin ExistingFolders
       THEN /\ last' = Result("ingest", "return", NoneValue, {}, {}, 1, <<>>)
            /\ ingests' = Append(ingests,
                   [folder |-> folder, build |-> "nofolder",
                    summary |-> NoneValue, count |-> Len(chroma_db),
                    stats |-> ZeroStats, warns |-> 0])
            /\ stats' = ZeroStats
            /\ UNCHANGED <<structured_data, documents, vectorstore,
                           chroma_db>>
       ELSE \E a \in {ProcessStructuredData(structured_data, ZeroStats, folder)} :
            \E b \in {ProcessDocuments(documents, a.stats, folder)} :
            \E c \in {_create_vector_index(b.docs, a.sd, b.stats, vectorstore,
                                          chroma_db, embedOk, reopen)} :
            \E summary \in {get_summary(a.sd, c.stats, c.vectorstore)} :
               /\ structured_data' = a.sd
               /\ documents' = c.docs
               /\ vectorstore' = c.vectorstore
               /\ chroma_db' = c.chroma_db
               /\ stats' = c.stats
               /\ last' = IF c.build = "raised"
                          THEN Result("ingest", "raise", "TypeError", c.net,
                                      {}, b.errors + c.errors, <<>>)
                          ELSE Result("ingest", "return", summary, c.net,
                                      IF c.build = "failed" THEN c.net ELSE {},
                                      b.errors + c.errors, <<>>)
               /\ ingests' = Append(ingests,
                      [folder |-> folder, build |-> c.build,
                       summary |-> IF c.build = "raised" THEN NoneValue
                                   ELSE summary,
                       count |-> Len(c.chroma_db),
                       stats |-> c.stats, warns |-> a.warns + b.warns])

\* process_all_data(folder_path); a, b, c and summary are what the three
\* steps and get_summary give, each computed once
process_all_data(folder, embedOk, reopen) ==
    /\ Len(ingests) < MaxIngests
    /\ IF folder \notin ExistingFolders
       THEN /\ last' = Result("ingest", "return", NoneValue, {}, {}, 1, <<>>)
            /\ ingests' = Append(ingests,
                   [folder |-> folder, build |-> "nofolder",
                    summary |-> NoneValue, count |-> Len(chroma_db),
                    stats |-> stats, warns |-> 0])
            /\ UNCHANGED <<structured_data, documents, vectorstore, stats,
                           chroma_db>>
       ELSE \E a \in {ProcessStructuredData(structured_data, ZeroStats, folder)} :
            \E b \in {ProcessDocuments(documents, a.stats, folder)} :
            \E c \in {_create_vector_index(b.docs, a.sd, b.stats, vectorstore,
                                          chroma_db, embedOk, reopen)} :
            \E summary \in {get_summary(a.sd, c.stats, c.vectorstore)} :
               /\ structured_data' = a.sd
               /\ documents' = c.docs
               /\ vectorstore' = c.vectorstore
               /\ chroma_db' = c.chroma_db
               /\ stats' = c.stats
               /\ last' = IF c.build = "raised"
                          THEN Result("ingest", "raise", "TypeError", c.net,
                                      {}, b.errors + c.errors, <<>>)
                          ELSE Result("ingest", "return", summary, c.net,
                                      IF c.build = "failed" THEN c.net ELSE {},
                                      b.errors + c.errors, <<>>)
               /\ ingests' = Append(ingests,
                      [folder |-> folder, build |-> c.build,
                       summary |-> IF c.build = "raised" THEN NoneValue
                                   ELSE summary,
                       count |-> Len(c.chroma_db),
                       stats |-> c.stats, warns |-> a.warns + b.warns])

Ingest == \E folder \in Folders, embedOk \in BOOLEAN, reopen \in BOOLEAN :
              process_all_data(folder, embedOk, reopen)

\* similarity of an entry to a query, as the embedding service decides it
Score(q, e) ==
    IF e.type = "document" THEN (q * (e.chunk + 1) + e.total_chunks) % 4
    ELSE (q + 1) % 4

\* the entries in the order a similarity search for q ranks them: the best
\* score first (a score is one of 0..TopScore), the earlier entry first among
\* entries of equal score; Ranked lists those of score s and less
TopScore == 3

RECURSIVE Ranked(_, _, _)
Ranked(q, es, s) ==
    LET AtScore(e) == Score(q, e) = s
    IN SelectSeq(es, AtScore)
       \o (IF s = 0 THEN <<>> ELSE Ranked(q, es, s - 1))

\* vectorstore.similarity_search(query, k=k)
similarity_search(q, k, es) ==
    LET ranked == Ranked(q, es, TopScore)
    IN SubSeq(ranked, 1, IF k < Len(ranked) THEN k ELSE Len(ranked))

\* variant: k is not passed on, the library's default of 4 results applies
search_default_k(vs, db, q, k, simOk) ==
    IF vs = NoneValue
    THEN [outcome |-> "return", value |-> <<>>, net |-> {}, failed |-> {},
          errors |-> 0]
    ELSE IF simOk
    THEN [outcome |-> "return", value |-> similarity_search(q, 4, db),
          net |-> {"similarity_search"}, failed |-> {}, errors |-> 0]
    ELSE [outcome |-> "return", value |-> <<>>,
          net |-> {"similarity_search"}, failed |-> {"similarity_search"},
          errors |-> 1]

\* variant: no check of the handle and no try/except
search_bare(vs, db, q, k, simOk) ==
    IF vs = NoneValue
    THEN [outcome |-> "raise", value |-> "AttributeError", net |-> {},
          failed |-> {}, errors |-> 0]
    ELSE IF simOk
    THEN [outcome |-> "return", value |-> similarity_search(q, k, db),
          net |-> {"similarity_search"}, failed |-> {}, errors |-> 0]
    ELSE [outcome |-> "raise", value |-> "Exception",
          net |-> {"similarity_search"}, failed |-> {"similarity_search"},
          errors |-> 0]

\* variant: the handle is checked but the similarity search is not in a try
search_untried(vs, db, q, k, simOk) ==
    IF vs = NoneValue
    THEN [outcome |-> "return", value |-> <<>>, net |-> {}, failed |-> {},
          errors |-> 0]
    ELSE IF simOk
    THEN [outcome |-> "return", value |-> similarity_search(q, k, db),
          net |-> {"similarity_search"}, failed |-> {}, errors |-> 0]
    ELSE [outcome |-> "raise", value |-> "Exception",
          net |-> {"similarity_search"}, failed |-> {"similarity_search"},
          errors |-> 0]

\* search(query, k) in the state <<vs, db>>; simOk: the underlying
\* similarity search (embedding of the query and lookup) succeeds
search(vs, db, q, k, simOk) ==
    IF vs = NoneValue
    THEN [outcome |-> "return", value |-> <<>>, net |-> {}, failed |-> {},
          errors |-> 0]
    ELSE IF simOk
    THEN [outcome |-> "return", value |-> similarity_search(q, k, db),
          net |-> {"similarity_search"}, failed |-> {}, errors |-> 0]
    ELSE [outcome |-> "return", value |-> <<>>,
          net |-> {"similarity_search"}, failed |-> {"similarity_search"},
          errors |-> 1]

Search == \E q \in Queries, k \in Ks, simOk \in BOOLEAN :
    \E r \in {search(vectorstore, chroma_db, q, k, simOk)} :
       /\ last' = WithArgs(Result("search", r.outcome, r.value, r.net,
                                  r.failed, r.errors, <<>>), <<q, k>>)
       /\ UNCHANGED <<structured_data, documents, vectorstore, stats,
                      chroma_db, ingests>>

\* get_structured_data_summary raises TypeError on a column label that is
\* not a str (', '.join(df.columns[:5])); otherwise one item per table
SummaryRaises(sd) == \E i \in 1..Len(sd) : ~sd[i].df.strcols

get_structured_data_summary(sd) == [i \in 1..Len(sd) |-> sd[i].name]

\* a block of context_parts: its heading and the items joined under it
Block(kind, items) == [kind |-> kind, items |-> items]

\* variant: the LLM is called whatever context_parts holds
ask_unified_unchecked(sd, vs, db, q, simOk, llmOk) ==
    LET r == IF vs # NoneValue
             THEN search(vs, db, q, UnifiedK, simOk)
             ELSE [outcome |-> "return", value |-> <<>>, net |-> {},
                   failed |-> {}, errors |-> 0]
        relevant_docs == IF r.outcome = "raise" THEN <<>> ELSE r.value
        docPart == IF relevant_docs # <<>>
                   THEN <<Block("documents",
                                [i \in 1..Len(relevant_docs) |->
                                     relevant_docs[i].source])>>
                   ELSE <<>>
        sdPart == IF sd # <<>>
                  THEN <<Block("datasets", get_structured_data_summary(sd))>>
                  ELSE <<>>
        context_parts == docPart \o sdPart
    IN IF sd # <<>> /\ SummaryRaises(sd)
       THEN Result("ask_unified", "raise", "TypeError", r.net, r.failed,
                   r.errors, docPart)
       ELSE IF llmOk
       THEN Result("ask_unified", "return",
                   [kind |-> "text", text |-> "answer"],
                   r.net \cup {"chat"}, r.failed, r.errors, context_parts)
       ELSE Result("ask_unified", "return",
                   [kind |-> "text", text |-> "Error generating response"],
                   r.net \cup {"chat"}, r.failed \cup {"chat"}, r.errors,
                   context_parts)

\* variant: the document block is added even when the search found nothing
ask_unified_emptyblock(sd, vs, db, q, simOk, llmOk) ==
    LET r == IF vs # NoneValue
             THEN search(vs, db, q, UnifiedK, simOk)
             ELSE [outcome |-> "return", value |-> <<>>, net |-> {},
                   failed |-> {}, errors |-> 0]
        relevant_docs == IF r.outcome = "raise" THEN <<>> ELSE r.value
        docPart == IF vs # NoneValue
                   THEN <<Block("documents",
                                [i \in 1..Len(relevant_docs) |->
                                     relevant_docs[i].source])>>
                   ELSE <<>>
        sdPart == IF sd # <<>>
                  THEN <<Block("datasets", get_structured_data_summary(sd))>>
                  ELSE <<>>
        context_parts == docPart \o sdPart
    IN IF sd # <<>> /\ SummaryRaises(sd)
       THEN Result("ask_unified", "raise", "TypeError", r.net, r.failed,
                   r.errors, docPart)
       ELSE IF context_parts = <<>>
       THEN Result("ask_unified", "return", NoDataMsg, r.net, r.failed,
                   r.errors, context_parts)
       ELSE IF llmOk
       THEN Result("ask_unified", "return",
                   [kind |-> "text", text |-> "answer"],
                   r.net \cup {"chat"}, r.failed, r.errors, context_parts)
       ELSE Result("ask_unified", "return",
                   [kind |-> "text", text |-> "Error generating response"],
                   r.net \cup {"chat"}, r.failed \cup {"chat"}, r.errors,
                   context_parts)

\* ask_unified(question); llmOk: the chat completion call succeeds
ask_unified(sd, vs, db, q, simOk, llmOk) ==
    LET r == IF vs # NoneValue
             THEN search(vs, db, q, UnifiedK, simOk)
             ELSE [outcome |-> "return", value |-> <<>>, net |-> {},
                   failed |-> {}, errors |-> 0]
        relevant_docs == IF r.outcome = "raise" THEN <<>> ELSE r.value
        docPart == IF relevant_docs # <<>>
                   THEN <<Block("documents",
                                [i \in 1..Len(relevant_docs) |->
                                     relevant_docs[i].source])>>
                   ELSE <<>>
        sdPart == IF sd # <<>>
                  THEN <<Block("datasets", get_structured_data_summary(sd))>>
                  ELSE <<>>
        context_parts == docPart \o sdPart
    IN IF sd # <<>> /\ SummaryRaises(sd)
       THEN Result("ask_unified", "raise", "TypeError", r.net, r.failed,
                   r.errors, docPart)
       ELSE IF context_parts = <<>>
       THEN Result("ask_unified", "return", NoDataMsg, r.net, r.failed,
                   r.errors, context_parts)
       ELSE IF llmOk
       THEN Result("ask_unified", "return",
                   [kind |-> "text", text |-> "answer"],
                   r.net \cup {"chat"}, r.failed, r.errors, context_parts)
       ELSE Result("ask_unified", "return",
                   [kind |-> "text", text |-> "Error generating response"],
                   r.net \cup {"chat"}, r.failed \cup {"chat"}, r.errors,
                   context_parts)

AskUnified == \E q \in Queries, simOk \in BOOLEAN, llmOk \in BOOLEAN :
    /\ last' = ask_unified(structured_data, vectorstore, chroma_db, q,
                           simOk, llmOk)
    /\ UNCHANGED <<structured_data, documents, vectorstore, stats,
                   chroma_db, ingests>>

\* set([...]) of a list of names, in the order of first occurrence
RECURSIVE Dedup(_)
Dedup(names) ==
    IF names = <<>> THEN <<>>
    ELSE LET front == SubSeq(names, 1, Len(names) - 1)
             x == names[Len(names)]
         IN IF \E i \in 1..Len(front) : front[i] = x
            THEN Dedup(front) ELSE Append(Dedup(front), x)

\* variant: the sources are joined as a list, not as a set
ask_documents_listed(vs, db, q, simOk, llmOk) ==
    IF vs = NoneValue
    THEN Result("ask_documents", "return",
                [kind |-> "text", text |-> "No documents indexed.",
                 sources |-> <<>>], {}, {}, 0, <<>>)
    ELSE IF ~simOk
    THEN Result("ask_documents", "return",
                [kind |-> "text", text |-> "Error searching documents",
                 sources |-> <<>>],
                {"similarity_search"}, {"similarity_search"}, 0, <<>>)
    ELSE IF ~llmOk
    THEN Result("ask_documents", "return",
                [kind |-> "text", text |-> "Error searching documents",
                 sources |-> <<>>],
                {"similarity_search", "chat"}, {"chat"}, 0, <<>>)
    ELSE LET source_documents == similarity_search(q, RetrieverK, db)
             names == [i \in 1..Len(source_documents) |->
                          source_documents[i].source]
         IN Result("ask_documents", "return",
                   [kind |-> "text", text |-> "answer",
                    sources |-> names],
                   {"similarity_search", "chat"}, {}, 0,
                   <<Block("source_documents", names)>>)

\* ask_documents(question).  simOk: the retriever of the chain succeeds;
\* llmOk: the chain's LLM call succeeds.  value.sources is the list joined
\* into the Sources suffix (empty: no suffix); ctx holds the filenames of
\* result['source_documents'].
ask_documents(vs, db, q, simOk, llmOk) ==
    IF vs = NoneValue
    THEN Result("ask_documents", "return",
                [kind |-> "text", text |-> "No documents indexed.",
                 sources |-> <<>>], {}, {}, 0, <<>>)
    ELSE IF ~simOk
    THEN Result("ask_documents", "return",
                [kind |-> "text", text |-> "Error searching documents",
                 sources |-> <<>>],
                {"similarity_search"}, {"similarity_search"}, 0, <<>>)
    ELSE IF ~llmOk
    THEN Result("ask_documents", "return",
                [kind |-> "text", text |-> "Error searching documents",
                 sources |-> <<>>],
                {"similarity_search", "chat"}, {"chat"}, 0, <<>>)
    ELSE LET source_documents == similarity_search(q, RetrieverK, db)
             names == [i \in 1..Len(source_documents) |->
                          source_documents[i].source]
         IN Result("ask_documents", "return",
                   [kind |-> "text", text |-> "answer",
                    sources |-> Dedup(names)],
                   {"similarity_search", "chat"}, {}, 0,
                   <<Block("source_documents", names)>>)

AskDocuments == \E q \in Queries, simOk \in BOOLEAN, llmOk \in BOOLEAN :
    /\ last' = ask_documents(vectorstore, chroma_db, q, simOk, llmOk)
    /\ UNCHANGED <<structured_data, documents, vectorstore, stats,
                   chroma_db, ingests>>

NoStructuredMsg == [kind |-> "text", text |-> "No structured data loaded."]

\* what code run by the agent can do to the DataFrame it is given: the agent
\* gets the objects of self.structured_data themselves (dfs, no copy), so an
\* in-place operation such as df.drop(df.index, inplace=True) changes the
\* loaded table
InPlace(sd) ==
    [i \in 1..Len(sd) |->
        IF i = 1 THEN [sd[i] EXCEPT !.df.rows = 0, !.df.bytes = 0] ELSE sd[i]]

\* variant: the agent is created and run although no table is loaded
ask_structured_data_unguarded(sd, createOk, runOk, inplace) ==
    IF ~createOk
    THEN [res |-> Result("ask_structured_data", "return",
                         [kind |-> "text",
                          text |-> "Error analyzing structured data"],
                         {"create_agent"}, {"create_agent"}, 0, <<>>),
          sd |-> sd]
    ELSE IF ~runOk
    THEN [res |-> Result("ask_structured_data", "return",
                         [kind |-> "text",
                          text |-> "Error analyzing structured data"],
                         {"create_agent", "agent_run"}, {"agent_run"}, 0, <<>>),
          sd |-> IF inplace /\ sd # <<>> THEN InPlace(sd) ELSE sd]
    ELSE [res |-> Result("ask_structured_data", "return",
                         [kind |-> "text", text |-> "answer"],
                         {"create_agent", "agent_run"}, {}, 0, <<>>),
          sd |-> IF inplace /\ sd # <<>> THEN InPlace(sd) ELSE sd]

\* variant: agent.run(question) is called after the try block
ask_structured_data_untried(sd, createOk, runOk, inplace) ==
    IF sd = <<>>
    THEN [res |-> Result("ask_structured_data", "return", NoStructuredMsg,
                         {}, {}, 0, <<>>),
          sd |-> sd]
    ELSE IF ~createOk
    THEN [res |-> Result("ask_structured_data", "return",
                         [kind |-> "text",
                          text |-> "Error analyzing structured data"],
                         {"create_agent"}, {"create_agent"}, 0, <<>>),
          sd |-> sd]
    ELSE IF ~runOk
    THEN [res |-> Result("ask_structured_data", "raise", "Exception",
                         {"create_agent", "agent_run"}, {"agent_run"}, 0, <<>>),
          sd |-> IF inplace THEN InPlace(sd) ELSE sd]
    ELSE [res |-> Result("ask_structured_data", "return",
                         [kind |-> "text", text |-> "answer"],
                         {"create_agent", "agent_run"}, {}, 0, <<>>),
          sd |-> IF inplace THEN InPlace(sd) ELSE sd]

\* ask_structured_data(question).  createOk: create_pandas_dataframe_agent
\* succeeds; runOk: agent.run succeeds; inplace: the code the agent ran
\* before it answered or failed changed a DataFrame in place.  The result
\* and the tables after the call.
ask_structured_data(sd, createOk, runOk, inplace) ==
    IF sd = <<>>
    THEN [res |-> Result("ask_structured_data", "return", NoStructuredMsg,
                         {}, {}, 0, <<>>),
          sd |-> sd]
    ELSE IF ~createOk
    THEN [res |-> Result("ask_structured_data", "return",
                         [kind |-> "text",
                          text |-> "Error analyzing structured data"],
                         {"create_agent"}, {"create_agent"}, 0, <<>>),
          sd |-> sd]
    ELSE IF ~runOk
    THEN [res |-> Result("ask_structured_data", "return",
                         [kind |-> "text",
                          text |-> "Error analyzing structured data"],
                         {"create_agent", "agent_run"}, {"agent_run"}, 0, <<>>),
          sd |-> IF inplace THEN InPlace(sd) ELSE sd]
    ELSE [res |-> Result("ask_structured_data", "return",
                         [kind |-> "text", text |-> "answer"],
                         {"create_agent", "agent_run"}, {}, 0, <<>>),
          sd |-> IF inplace THEN InPlace(sd) ELSE sd]

AskStructuredData ==
    \E createOk \in BOOLEAN, runOk \in BOOLEAN, inplace \in BOOLEAN :
        LET r == ask_structured_data(structured_data, createOk, runOk, inplace)
        IN /\ last' = r.res
           /\ structured_data' = r.sd
           /\ UNCHANGED <<documents, vectorstore, stats, chroma_db, ingests>>

Next == Ingest \/ Search \/ AskUnified \/ AskStructuredData \/ AskDocuments

Spec == Init /\ [][Next]_vars

\* the texts the chunker is checked on
MaxRuns == 4
Runs == {Word(300), Word(600), Word(1200), Space, Newline}
Texts == UNION {[1..n -> Runs] : n \in 0..MaxRuns}

InitChunker ==
    /\ structured_data = <<>>
    /\ documents = <<>>
    /\ vectorstore = NoneValue
    /\ stats = ZeroStats
    /\ chroma_db = <<>>
    /\ ingests = <<>>
    /\ \E text \in Texts :
           last = Result("text", "return", text, {}, {}, 0, <<>>)

SplitText ==
    /\ last.op = "text"
    /\ last' = WithArgs(Result("split_text", "return", split_text(last.value),
                               {}, {}, 0, <<>>), <<last.value>>)
    /\ UNCHANGED <<structured_data, documents, vectorstore, stats, chroma_db,
                   ingests>>

NextChunker == SplitText

SpecChunker == InitChunker /\ [][NextChunker]_vars

\* the tables the describer is checked on: runs of columns of one kind
\* (numeric or not, with a null or without), of 1 or 6 columns each
MaxColRuns == 3
ColRuns == [numeric : BOOLEAN, missing : {0, 1}, n : {1, 6}]
ColRunSeqs == UNION {[1..n -> ColRuns] : n \in 0..MaxColRuns}

RECURSIVE RunColumns(_, _)
RunColumns(rs, from) ==
    IF rs = <<>> THEN <<>>
    ELSE [i \in 1..Head(rs).n |->
            Column("c" \o ToString(from + i), Head(rs).numeric,
                   Head(rs).missing)]
         \o RunColumns(Tail(rs), from + Head(rs).n)

Frames ==
    {[rows |-> 10, bytes |-> 0, columns |-> RunColumns(rs, 0),
      strcols |-> TRUE] : rs \in ColRunSeqs}

InitDescriber ==
    /\ structured_data = <<>>
    /\ documents = <<>>
    /\ vectorstore = NoneValue
    /\ stats = ZeroStats
    /\ chroma_db = <<>>
    /\ ingests = <<>>
    /\ \E df \in Frames :
           last = Result("frame", "return", df, {}, {}, 0, <<>>)

Describe ==
    /\ last.op = "frame"
    /\ ~DescriptionRaises(last.value)
    /\ last' = WithArgs(Result("_create_dataset_description", "return",
                               _create_dataset_description("t.csv", last.value),
                               {}, {}, 0, <<>>), <<last.value>>)
    /\ UNCHANGED <<structured_data, documents, vectorstore, stats, chroma_db,
                   ingests>>

NextDescriber == Describe

SpecDescriber == InitDescriber /\ [][NextDescriber]_vars

\* ---------------------------------------------------------------- notions
LastIngest == ingests[Len(ingests)]

\* builds that let process_all_data complete and return a summary
Completed == {"ok", "skipped"}

\* the entries an ingest of the folder produces on a new warehouse
FolderEntries(folder) ==
    AllDocEntries(ProcessDocuments(<<>>, ZeroStats, folder).docs)
    \o TableEntries(ProcessStructuredData(<<>>, ZeroStats, folder).sd)

Range(s) == {s[i] : i \in 1..Len(s)}

\* ------------------------------------------------------------------ claims

\* C1: after an ingest whose index build succeeded, the set of index entries
\* is exactly the set produced from that ingest's folder; no entry of an
\* earlier ingest is left or merged in.
C1_IndexIsLatestFolder ==
    (ingests # <<>> /\ LastIngest.build = "ok")
        => Range(IndexEntries) = Range(FolderEntries(LastIngest.folder))

\* C2: two ingests in a row of the same folder, both with a successful
\* build, return equal summaries and leave the same number of index entries.
C2_IdempotentReingest ==
    \A i \in 1..(Len(ingests) - 1) :
        (/\ ingests[i].folder = ingests[i + 1].folder
         /\ ingests[i].build = "ok"
         /\ ingests[i + 1].build = "ok")
            => /\ ingests[i + 1].summary = ingests[i].summary
               /\ ingests[i + 1].count = ingests[i].count

\* C3: an ingest whose index build fails on the embedding service persists
\* no entry and leaves the index handle as it was, and no query changes
\* either, so later searches read the index that existed before.
C3_FailedBuildKeepsIndex ==
    [][((Len(ingests') > Len(ingests)
            /\ ingests'[Len(ingests')].build = "failed")
        \/ ingests' = ingests)
       => (chroma_db' = chroma_db /\ vectorstore' = vectorstore)]_vars

C3_Witness ==
    /\ ingests # <<>>
    /\ LastIngest.build = "failed"
    /\ last.op = "search"
    /\ last.failed = {}
    /\ last.value # <<>>

\* C4: the stats counters are always those of the most recent ingest that
\* completed (zero before any), also after an ingest whose build failed.
C4_StatsOfLastCompleted ==
    LET good == {i \in 1..Len(ingests) : ingests[i].build \in Completed}
    IN (\A i \in 1..Len(ingests) : ingests[i].build # "raised")
         => stats = IF good = {} THEN ZeroStats ELSE ingests[Max(good)].stats

\* C5: every summary an ingest returns has ready true exactly when the
\* index holds at least one entry at that moment.
C5_ReadyIffIndexed ==
    \A i \in 1..Len(ingests) :
        ingests[i].build \in {"ok", "skipped", "failed"}
            => (ingests[i].summary.ready <=> ingests[i].count >= 1)

C5_Witness ==
    /\ Len(ingests) >= 2
    /\ ingests[1].build = "failed"
    /\ ~ingests[1].summary.ready
    /\ ingests[2].build = "ok"
    /\ ingests[2].summary.ready

\* C6: ask_unified never raises; it always returns a text.
C6_AskUnifiedNeverRaises ==
    last.op = "ask_unified"
        => (last.outcome = "return" /\ last.value.kind = "text")

\* C7: with no table and no document loaded, ask_unified returns the fixed
\* no-data message and makes no remote call.
C7_NoDataNoNetwork ==
    (last.op = "ask_unified" /\ structured_data = <<>> /\ documents = <<>>)
        => (last.outcome = "return" /\ last.value = NoDataMsg
            /\ last.net = {})

C7_Witness ==
    /\ last.op = "ask_unified"
    /\ structured_data = <<>>
    /\ documents = <<>>
    /\ Len(ingests) >= 2
    /\ last.value = NoDataMsg

\* C8: ask_unified calls the LLM only with a non-empty context block; when
\* no block holds anything it returns the no-data message without the call.
C8_LlmOnlyWithContext ==
    last.op = "ask_unified"
        => /\ "chat" \in last.net
                => \E i \in 1..Len(last.ctx) : last.ctx[i].items # <<>>
           /\ (last.outcome = "return"
               /\ \A i \in 1..Len(last.ctx) : last.ctx[i].items = <<>>)
                => (last.value = NoDataMsg /\ "chat" \notin last.net)

C8_Witness ==
    /\ last.op = "ask_unified"
    /\ vectorstore # NoneValue
    /\ "similarity_search" \in last.failed
    /\ last.ctx = <<>>
    /\ last.value = NoDataMsg

\* C9: search without an index, or on an empty one, returns the empty
\* sequence and does not raise.
C9_SearchWithoutIndex ==
    (last.op = "search" /\ (vectorstore = NoneValue \/ chroma_db = <<>>))
        => (last.outcome = "return" /\ last.value = <<>>)

C9_Witness ==
    /\ last.op = "search"
    /\ vectorstore = NoneValue
    /\ last.value = <<>>
    /\ ingests # <<>>
    /\ LastIngest.build = "failed"

\* C10: a search whose similarity search fails reports the error, returns
\* the empty sequence without raising, and changes nothing of the warehouse.
C10_SearchFailureDegrades ==
    [][(last'.op = "search" /\ "similarity_search" \in last'.failed)
       => (/\ last'.outcome = "return"
           /\ last'.value = <<>>
           /\ last'.errors >= 1
           /\ UNCHANGED <<structured_data, documents, vectorstore, stats,
                          chroma_db>>)]_vars

C10_Witness ==
    /\ last.op = "search"
    /\ "similarity_search" \in last.failed
    /\ chroma_db # <<>>
    /\ last.value = <<>>
    /\ last.errors = 1

Count(s, e) == Cardinality({i \in 1..Len(s) : s[i] = e})

\* C11: search(query, k) returns at most k entries, each of them an entry of
\* the current index (no entry more often than the index holds it), in
\* order of similarity to the query, highest first.
C11_SearchTopK ==
    (last.op = "search" /\ last.outcome = "return")
        => LET q == last.args[1]
               k == last.args[2]
               v == last.value
           IN /\ Len(v) <= k
              /\ \A i \in 1..Len(v) : Count(v, v[i]) <= Count(IndexEntries, v[i])
              /\ \A i \in 1..Len(v) : \A j \in (i + 1)..Len(v) :
                     Score(q, v[i]) >= Score(q, v[j])

C11_Witness ==
    /\ last.op = "search"
    /\ last.args[2] = 1
    /\ Len(last.value) = 1
    /\ Len(IndexEntries) >= 3
    /\ \E i \in 1..Len(IndexEntries) :
           Score(last.args[1], IndexEntries[i]) < Score(last.args[1], last.value[1])
    /\ IndexEntries[1] # last.value[1]

\* C12: with no table loaded, ask_structured_data returns the fixed "no
\* structured data" message and neither creates nor runs the agent.
C12_NoTablesNoAgent ==
    (last.op = "ask_structured_data" /\ structured_data = <<>>)
        => (last.outcome = "return" /\ last.value = NoStructuredMsg
            /\ last.net = {})

C12_Witness ==
    /\ last.op = "ask_structured_data"
    /\ structured_data = <<>>
    /\ documents # <<>>
    /\ vectorstore # NoneValue
    /\ last.value = NoStructuredMsg

\* C13: ask_structured_data never raises; a failure to create or to run the
\* agent comes back as the textual error message.
C13_AgentFailureIsText ==
    last.op = "ask_structured_data"
        => /\ last.outcome = "return"
           /\ last.value.kind = "text"
           /\ last.failed # {}
                => last.value.text = "Error analyzing structured data"

C13_Witness ==
    /\ last.op = "ask_structured_data"
    /\ last.failed = {"agent_run"}
    /\ last.outcome = "return"
    /\ last.value.text = "Error analyzing structured data"

\* C14: the text ask_documents returns carries a Sources suffix exactly
\* when the chain returned at least one source document, and the suffix
\* names the file of every returned chunk exactly once and no other file.
C14_SourcesOnce ==
    (last.op = "ask_documents" /\ last.outcome = "return")
        => LET retrieved == IF last.ctx = <<>> THEN <<>> ELSE last.ctx[1].items
               suffix == last.value.sources
           IN /\ suffix # <<>> <=> retrieved # <<>>
              /\ \A i \in 1..Len(retrieved) : Count(suffix, retrieved[i]) = 1
              /\ \A i \in 1..Len(suffix) : Count(retrieved, suffix[i]) >= 1

C14_Witness ==
    /\ last.op = "ask_documents"
    /\ last.ctx # <<>>
    /\ \E i \in 1..Len(last.ctx[1].items) :
           Count(last.ctx[1].items, last.ctx[1].items[i]) >= 2
    /\ Len(last.value.sources) = 2

QueryOps == {"search", "ask_documents", "ask_unified", "ask_structured_data"}

\* the empty or explicit not-ready result of a query operation
NotReady(op, value) ==
    CASE op = "search" -> value = <<>>
      [] op = "ask_documents" -> value.text = "No documents indexed."
      [] op = "ask_unified" -> value = NoDataMsg
      [] op = "ask_structured_data" -> value = NoStructuredMsg
      [] OTHER -> FALSE

\* C15: as long as no ingest has built the index, every query operation
\* returns its empty or not-ready result and does not raise.
C15_NotReadyBeforeIngest ==
    (last.op \in QueryOps /\ \A i \in 1..Len(ingests) : ingests[i].build # "ok")
        => (last.outcome = "return" /\ NotReady(last.op, last.value))

\* the files of a folder that the loaders look at, by what becomes of them
Tabular(fs) == {i \in 1..Len(fs) : ~fs[i].dot /\ fs[i].ext \in {"csv", "xlsx", "xls"}}
Textual(fs) == {i \in 1..Len(fs) : ~fs[i].dot /\ fs[i].ext \in {"pdf", "docx", "txt"}}

RECURSIVE SumOver(_, _, _)
SumOver(S, fs, rowsOnly) ==
    IF S = {} THEN 0
    ELSE LET i == CHOOSE x \in S : TRUE
         IN (IF rowsOnly THEN fs[i].rows ELSE 1) + SumOver(S \ {i}, fs, rowsOnly)

C17_ChunksAssignedOnce ==
    \A i \in 1..Len(documents) :
        /\ documents[i].assigned <= 1
        /\ documents[i].assigned = 0 => documents[i].chunks = <<>>
        /\ documents[i].assigned >= 1
              => documents[i].chunks = split_text(documents[i].content)

\* the entries the last index build handed to Chroma.from_texts: the last
\* total_chunks entries of the collection
Emitted ==
    SubSeq(chroma_db, Len(chroma_db) - stats.total_chunks + 1, Len(chroma_db))

\* number of chunks of the documents before the j-th
ChunksBefore(j) == SumSeq([i \in 1..(j - 1) |-> Len(documents[i].chunks)])

\* C18: a successful index build emits, for each DocumentRecord with n
\* chunks, n document entries with its filename, ordinals 0..n-1 in chunk
\* order and sibling count n, then one structured-data entry with ordinal 0
\* and sibling count 1 for each loaded table, and nothing else.
C18_EntriesPerSource ==
    (last.op = "ingest" /\ LastIngest.build = "ok")
        => LET D == ChunksBefore(Len(documents) + 1)
           IN /\ Len(Emitted) = D + Len(structured_data)
              /\ \A j \in 1..Len(documents) :
                   \A c \in 1..Len(documents[j].chunks) :
                     Emitted[ChunksBefore(j) + c] =
                        [text |-> documents[j].chunks[c],
                         source |-> documents[j].filename,
                         type |-> "document",
                         chunk |-> c - 1,
                         total_chunks |-> Len(documents[j].chunks)]
              /\ \A t \in 1..Len(structured_data) :
                     /\ Emitted[D + t].source = structured_data[t].name
                     /\ Emitted[D + t].type = "structured_data"
                     /\ Emitted[D + t].chunk = 0
                     /\ Emitted[D + t].total_chunks = 1

C18_Witness ==
    /\ last.op = "ingest"
    /\ LastIngest.build = "ok"
    /\ \E j \in 1..Len(documents) : Len(documents[j].chunks) = 3
    /\ structured_data # <<>>
    /\ Len(Emitted) >= 4
    /\ Len(chroma_db) > Len(Emitted)

\* C19: only ingest writes: a step that is not a process_all_data call (a
\* search, ask_documents, ask_unified or ask_structured_data) leaves the
\* index, the loaded tables, the document list and the stats unchanged.
C19_QueriesWriteNothing ==
    [][ingests' = ingests
          => UNCHANGED <<chroma_db, vectorstore, structured_data, documents,
                         stats>>]_vars

\* a character position of the text that lies in one of the chunks
Covered(chunks, p) ==
    \E i \in 1..Len(chunks) : chunks[i].first <= p /\ p <= chunks[i].last

\* the first position of every maximal stretch of the text that is in no
\* chunk, and the last position of the stretch that starts at g
GapStarts(text, chunks) ==
    {p \in {1} \cup {chunks[i].last + 1 : i \in 1..Len(chunks)} :
        p <= TextLen(text) /\ ~Covered(chunks, p)}

GapEnd(text, chunks, g) ==
    LET later == {chunks[i].first : i \in 1..Len(chunks)} \cap (g..TextLen(text))
    IN IF later = {} THEN TextLen(text)
       ELSE (CHOOSE x \in later : \A y \in later : x <= y) - 1

\* C21 as stated: the chunks of any text cover every character of it (no
\* stretch of the text is in no chunk), and every chunk has at most
\* chunk_size characters (the last separator "" leaves no atomic token).
C21_ChunksCoverText ==
    last.op = "split_text"
        => /\ GapStarts(last.args[1], last.value) = {}
           /\ \A i \in 1..Len(last.value) :
                  last.value[i].last - last.value[i].first + 1 <= chunk_size

\* C21 as amended: the chunks of any text cover every character of it that
\* is not whitespace (a stretch in no chunk holds separators only), and every
\* chunk has at least one and at most chunk_size characters.
C21_ChunksCoverWords ==
    last.op = "split_text"
        => LET text == last.args[1]
               chunks == last.value
           IN /\ \A g \in GapStarts(text, chunks) :
                     \A p \in g..GapEnd(text, chunks, g) : CharAt(text, p) # "w"
              /\ \A i \in 1..Len(chunks) :
                     /\ chunks[i].first <= chunks[i].last
                     /\ chunks[i].last - chunks[i].first + 1 <= chunk_size

C21_Witness ==
    /\ last.op = "split_text"
    /\ Len(last.value) >= 3
    /\ GapStarts(last.args[1], last.value) # {}
    /\ \E i \in 1..Len(last.args[1]) : last.args[1][i].len > chunk_size
    /\ \E i \in 1..(Len(last.value) - 1) :
           last.value[i + 1].first <= last.value[i].last

HasWord(text) == \E i \in 1..Len(text) : text[i].c = "w"

\* C22 as stated: the chunker yields no chunk for the empty text and exactly
\* one chunk for any non-empty text shorter than chunk_size.
C22_ShortTextOneChunk ==
    last.op = "split_text"
        => /\ last.args[1] = <<>> => last.value = <<>>
           /\ (last.args[1] # <<>> /\ TextLen(last.args[1]) < chunk_size)
                  => Len(last.value) = 1

\* C22 as amended: the chunker yields no chunk for the empty text, and for a
\* non-empty text shorter than chunk_size exactly one chunk when the text has
\* a character that is not whitespace, and no chunk when it has none.
C22_ShortTextOneChunkOfWords ==
    last.op = "split_text"
        => /\ last.args[1] = <<>> => last.value = <<>>
           /\ (last.args[1] # <<>> /\ TextLen(last.args[1]) < chunk_size)
                  => Len(last.value) = IF HasWord(last.args[1]) THEN 1 ELSE 0

C22_Witness ==
    /\ last.op = "split_text"
    /\ TextLen(last.args[1]) < chunk_size
    /\ Len(last.args[1]) >= 3
    /\ last.args[1][1].c # "w"
    /\ Len(last.value) = 1
    /\ last.value[1].first > 1

\* a folder of the scenario: one text document of 2500 characters and one
\* table of 10 rows and 3 columns with one missing cell, both readable
ScenarioFolder(folder) ==
    LET fs == listdir(folder)
    IN /\ Cardinality(Textual(fs)) = 1
       /\ Cardinality(Tabular(fs)) = 1
       /\ \A i \in Textual(fs) : fs[i].ok /\ fs[i].len = 2500
       /\ \A i \in Tabular(fs) :
              /\ fs[i].ok /\ fs[i].rows = 10 /\ Len(fs[i].cols) = 3
              /\ SumSeq([j \in 1..Len(fs[i].cols) |-> fs[i].cols[j].missing]) = 1

\* the text documents of the folder hold no separator
NoSeparator(folder) ==
    \A i \in Textual(listdir(folder)) :
        \A j \in 1..Len(listdir(folder)[i].text) :
            listdir(folder)[i].text[j].c = "w"

\* C23 as stated: the first ingest of a scenario folder on a new warehouse,
\* with the index built, returns documents = 1, total_rows = 10 and
\* chunks_indexed = 4.
C23_ScenarioFourEntries ==
    (ingests # <<>> /\ ScenarioFolder(ingests[1].folder)
                    /\ ingests[1].build = "ok")
        => /\ ingests[1].summary.documents = 1
           /\ ingests[1].summary.total_rows = 10
           /\ ingests[1].summary.chunks_indexed = 4

\* C23 as amended: the same for a scenario folder whose 2500-character
\* document holds no separator (no paragraph break, line break or space).
C23_ScenarioFourEntriesNoSeparator ==
    (ingests # <<>> /\ ScenarioFolder(ingests[1].folder)
                    /\ NoSeparator(ingests[1].folder)
                    /\ ingests[1].build = "ok")
        => /\ ingests[1].summary.documents = 1
           /\ ingests[1].summary.total_rows = 10
           /\ ingests[1].summary.chunks_indexed = 4

C23_Witness ==
    /\ Len(ingests) = 1
    /\ ingests[1].folder = "mixed"
    /\ ingests[1].build = "ok"
    /\ ingests[1].summary.chunks_indexed = 4
    /\ Len(chroma_db) = 4
    /\ Len(documents[1].chunks) = 3

\* the number of numeric columns among the first i columns of cols
NumericUpTo(cols, i) == Cardinality({j \in 1..i : cols[j].numeric})

\* s is a sequence without repetition
NoRepeat(s) == \A i, j \in 1..Len(s) : s[i] = s[j] => i = j

\* the labels of s come in the order of cols
InColumnOrder(s, cols) ==
    \A i, j \in 1..Len(s) :
        i < j => \E a, b \in 1..Len(cols) :
                     a < b /\ cols[a].name = s[i] /\ cols[b].name = s[j]

\* C24: the description of a table has a statistics line for exactly the
\* first min(10, n) of its n numeric columns, in column order, and a
\* missing-value line for exactly the columns with at least one missing
\* value, in a missing-value section that is there only when some column
\* has one.
C24_DescriptionLines ==
    last.op = "_create_dataset_description" =>
        LET cols == last.args[1].columns
            d == last.value
            missing == [i \in 1..Len(d.missing) |-> d.missing[i].col]
        IN /\ Range(d.stats) =
                  {cols[i].name : i \in {j \in 1..Len(cols) :
                        cols[j].numeric /\ NumericUpTo(cols, j) <= 10}}
           /\ NoRepeat(d.stats) /\ InColumnOrder(d.stats, cols)
           /\ Range(missing) =
                  {cols[i].name : i \in {j \in 1..Len(cols) :
                        cols[j].missing >= 1}}
           /\ NoRepeat(missing) /\ InColumnOrder(missing, cols)
           /\ \A i \in 1..Len(d.missing) :
                  \E j \in 1..Len(cols) : cols[j].name = d.missing[i].col
                                          /\ cols[j].missing = d.missing[i].count
           /\ d.missing_header <=> d.missing # <<>>
           /\ d.stats_header <=> d.stats # <<>>

C24_Witness ==
    /\ last.op = "_create_dataset_description"
    /\ NumericUpTo(last.args[1].columns, Len(last.args[1].columns)) > 10
    /\ Len(last.value.stats) = 10
    /\ \E i \in 1..Len(last.args[1].columns) :
           ~last.args[1].columns[i].numeric /\ last.args[1].columns[i].missing = 1
    /\ \E i \in 1..Len(last.args[1].columns) :
           last.args[1].columns[i].missing = 0
    /\ last.value.missing_header

\* C25: after any sequence of ingests the warehouse holds at most one
\* DocumentRecord and at most one Table per source filename.
C25_OneRecordPerFilename ==
    /\ \A i, j \in 1..Len(documents) :
           documents[i].filename = documents[j].filename => i = j
    /\ \A i, j \in 1..Len(structured_data) :
           structured_data[i].name = structured_data[j].name => i = j

\* C26: the chunks_indexed of every summary is the number of entries of the
\* index that search reads; it is 0 when ready is false and at least 1 when
\* ready is true.
C26_ChunksIndexedIsIndexSize ==
    \A i \in 1..Len(ingests) :
        ingests[i].build \in {"ok", "skipped", "failed"}
            => /\ ingests[i].summary.chunks_indexed = ingests[i].count
               /\ ~ingests[i].summary.ready
                      => ingests[i].summary.chunks_indexed = 0
               /\ ingests[i].summary.ready
                      => ingests[i].summary.chunks_indexed >= 1

\* C27: the documents count of the summary an ingest returns is the number
\* of DocumentRecords in the document list.
C27_DocumentsCountIsListLength ==
    (last.op = "ingest" /\ LastIngest.build \in {"ok", "skipped", "failed"})
        => LastIngest.summary.documents = Len(documents)

\* the tabular files of the folder that load
LoadedTabular(folder) ==
    {i \in Tabular(listdir(folder)) : listdir(folder)[i].ok}

\* C28: in the summary an ingest returns, total_rows is the sum of the row
\* counts of the tables loaded at that moment, and structured_files is the
\* number of tabular files of the ingested folder that loaded.
C28_RowsAndFilesOfSummary ==
    (last.op = "ingest" /\ LastIngest.build \in {"ok", "skipped", "failed"})
        => /\ LastIngest.summary.total_rows =
                  SumSeq([i \in 1..Len(structured_data) |->
                             structured_data[i].df.rows])
           /\ LastIngest.summary.structured_files =
                  Cardinality(LoadedTabular(LastIngest.folder))

\* C29: an ingest of a folder path that does not exist returns no summary
\* and leaves the stats, the loaded tables, the document list and the index
\* exactly as they were before the call.
C29_MissingFolderChangesNothing ==
    [][(Len(ingests') > Len(ingests)
            /\ ingests'[Len(ingests')].folder \notin ExistingFolders)
       => (/\ last'.op = "ingest"
           /\ last'.outcome = "return"
           /\ last'.value = NoneValue
           /\ UNCHANGED <<structured_data, documents, vectorstore, stats,
                          chroma_db>>)]_vars

C29_Witness ==
    /\ Len(ingests) = 2
    /\ ingests[1].build = "ok"
    /\ ingests[1].folder = "mixed"
    /\ ingests[2].folder = "missing"
    /\ last.op = "ingest"
    /\ stats = ingests[1].stats
    /\ stats.total_chunks = 4
    /\ Len(chroma_db) = 4
    /\ vectorstore # NoneValue

====
